---- MODULE Spec2Model ----
(***************************************************************************)
(* The reactive dataflow of the health dashboard (src/app.py): the inputs  *)
(* of one session, the two cached derived tables current_data and          *)
(* trend_data, the outputs that read them, and the select-all button.      *)
(*                                                                         *)
(* Conventions of the model                                                *)
(*  - a cleaned indicator value is a whole number of thousandths (20000 is *)
(*    20.0); NaN is the missing value;                                     *)
(*  - a data frame is the sequence of its rows, a row a record;            *)
(*  - input.year() is the text the year selectize holds ("" once cleared), *)
(*    input.state() the tuple of selected names in selection order (the    *)
(*    empty tuple once everything is deselected);                          *)
(*  - a reactive.calc caches its last result, or the exception it raised,  *)
(*    together with the inputs it read while running, and is invalidated   *)
(*    when one of those inputs is set to a different value;                *)
(*  - an output on a tab that is not shown is suspended: it runs again     *)
(*    only once its tab is shown.                                          *)
(***************************************************************************)
EXTENDS Integers, Sequences, FiniteSets, TLC

VARIABLES
    health_data,   \* the data frame loaded at start (src/app.py:46)
    input,         \* the session's input values
    tab,           \* the panel of the chart navset that is shown
    calc,          \* the caches of the reactive.calc functions
    output,        \* the last rendering of every output
    inflight,      \* update_selectize messages sent and not yet applied by the client
    ran,           \* the calcs and outputs executed by the last step
    event,         \* the message the last step handled
    tutorial_step, \* the reactive value tutorial_step of server()
    modal          \* the tutorial modal as the client shows it

vars == <<health_data, input, tab, calc, output, inflight, ran, event,
          tutorial_step, modal>>

----------------------------------------------------------------------------
(* Bounds *)

MaxRows == 3
MaxInflight == 1
MaxNames == 3
MaxSearchLen == 2
MaxSessions == 2
MaxPending == 3

----------------------------------------------------------------------------
(* The data frame *)

NaN == -1

Obesity == "Adult.obesity..in..."
Smoking == "Adult.smoking..in..."
Physical == "Physical.unhealthy.days"
Mental == "Mental.unhealthy.days"

IndicatorColumns == {Obesity, Smoking, Physical, Mental}

Range(s) == {s[i] : i \in DOMAIN s}

Row(st, yr, ob, sm, ph, me) ==
    [State |-> st, year |-> yr,
     col |-> (Obesity :> ob @@ Smoking :> sm @@ Physical :> ph @@ Mental :> me)]

\* Series.unique(): the distinct values in order of first appearance.
RECURSIVE unique(_)
unique(s) ==
    IF s = <<>> THEN <<>>
    ELSE LET front == unique(SubSeq(s, 1, Len(s) - 1))
             last == s[Len(s)]
         IN IF last \in Range(front) THEN front ELSE Append(front, last)

StateColumn(hd) == [i \in DOMAIN hd |-> hd[i].State]
YearColumn(hd) == [i \in DOMAIN hd |-> hd[i].year]

\* str(year) and int(text) on the years of the data.
YearText == (2019 :> "2019" @@ 2020 :> "2020")

str(y) == YearText[y]

IsIntLiteral(s) == \E y \in DOMAIN YearText : YearText[y] = s

int(s) == CHOOSE y \in DOMAIN YearText : YearText[y] = s

MaxOf(S) == CHOOSE m \in S : \A x \in S : x <= m

\* The choices of the state and year selectize inputs.
state_choices(hd) == Range(unique(StateColumn(hd)))
year_choices(hd) == {str(y) : y \in Range(unique(YearColumn(hd)))}

----------------------------------------------------------------------------
(* get_region *)

northeast == {"Connecticut", "Maine", "Massachusetts", "New Hampshire",
              "Rhode Island", "Vermont", "New York", "New Jersey", "Pennsylvania"}
midwest == {"Illinois", "Indiana", "Michigan", "Ohio", "Wisconsin",
            "Iowa", "Kansas", "Minnesota", "Missouri", "Nebraska",
            "North Dakota", "South Dakota"}
south == {"Delaware", "Florida", "Georgia", "Maryland", "North Carolina",
          "South Carolina", "Virginia", "West Virginia", "Alabama",
          "Kentucky", "Mississippi", "Tennessee", "Arkansas",
          "Louisiana", "Oklahoma", "Texas"}

\* (mutant) a state of none of the three lists is given no region.
get_region_unlisted_unknown(state) ==
    IF state \in northeast THEN "Northeast"
    ELSE IF state \in midwest THEN "Midwest"
    ELSE IF state \in south THEN "South"
    ELSE "Unknown"

get_region(state) ==
    IF state \in northeast THEN "Northeast"
    ELSE IF state \in midwest THEN "Midwest"
    ELSE IF state \in south THEN "South"
    ELSE "West"

----------------------------------------------------------------------------
(* Sorting and ranking as pandas does them *)

\* A stable insertion of the keyed row r into a frame sorted ascending by key.
RECURSIVE InsertAscending(_, _)
InsertAscending(sorted, r) ==
    IF sorted = <<>> THEN <<r>>
    ELSE IF r.key < sorted[Len(sorted)].key
         THEN Append(InsertAscending(SubSeq(sorted, 1, Len(sorted) - 1), r),
                     sorted[Len(sorted)])
         ELSE Append(sorted, r)

\* The values laid out in ascending order (an insertion sort), for rank().
RECURSIVE SortKeyed(_)
SortKeyed(keyed) ==
    IF keyed = <<>> THEN <<>>
    ELSE InsertAscending(SortKeyed(SubSeq(keyed, 1, Len(keyed) - 1)),
                         keyed[Len(keyed)])

\* The ways of laying out the positions 1..n, every position once.
RowOrders(n) ==
    {p \in [1..n -> 1..n] : \A i, j \in 1..n : p[i] = p[j] => i = j}

\* DataFrame.sort_values(by, ascending=True), keys[i] being the value of
\* column `by` in rows[i]. The default kind='quicksort' is not a stable
\* sort: rows with equal keys come out in an order that depends on the
\* numpy build. The outcome is any one of the frames in this set.
SortAscending(rows, keys) ==
    LET n == Len(rows)
        orders == {p \in RowOrders(n) : \A i \in 1..(n - 1) : keys[p[i]] <= keys[p[i + 1]]}
    IN {[i \in 1..n |-> rows[p[i]]] : p \in orders}

Reverse(s) == [i \in DOMAIN s |-> s[Len(s) + 1 - i]]

\* DataFrame.sort_values(by, ascending=False), by the same unstable sort:
\* any one of the frames in this set.
SortDescending(rows, keys) ==
    LET n == Len(rows)
        orders == {p \in RowOrders(n) : \A i \in 1..(n - 1) : keys[p[i]] >= keys[p[i + 1]]}
    IN {[i \in 1..n |-> rows[p[i]]] : p \in orders}

\* (mutant) method='dense': the ranks of distinct values are consecutive.
RankDenseDescending(values) ==
    [i \in DOMAIN values |->
        1 + Cardinality({values[j] : j \in {k \in DOMAIN values : values[k] > values[i]}})]

\* Series.rank(ascending=False, method='min'): the values are laid out from
\* the greatest to the least, and each value gets the first (least) position
\* of the run of values equal to it.
RankMinDescending(values) ==
    LET ascending == SortKeyed([i \in DOMAIN values |-> [key |-> values[i]]])
        ordered == Reverse([i \in DOMAIN ascending |-> ascending[i].key])
    IN [i \in DOMAIN values |->
          CHOOSE p \in DOMAIN ordered :
              /\ ordered[p] = values[i]
              /\ \A q \in DOMAIN ordered : ordered[q] = values[i] => p <= q]

----------------------------------------------------------------------------
(* req and the two reactive.calc functions *)

\* What a calc hands to req(): an input accessor such as input.state (the
\* object, which is not called, so no input is read), or a value.
Accessor(name) == [kind |-> "accessor", name |-> name]

\* bool(arg): an accessor object defines neither __bool__ nor __len__, so it
\* counts as true; a text or a tuple counts as true unless it is empty.
Truthy(arg) ==
    CASE arg.kind = "accessor" -> TRUE
      [] arg.kind = "text" -> arg.value # ""
      [] arg.kind = "tuple" -> arg.value # <<>>

\* req(*args): raises SilentException unless every argument is truthy.
req(args) == \A i \in DOMAIN args : Truthy(args[i])

\* The inputs read to build the arguments of a req() call.
ReadByArgs(args) == {args[i].name : i \in {j \in DOMAIN args : args[j].kind # "accessor"}}

\* The result of one run of a calc: what it returned or the exception it
\* raised, and the inputs it read on the way.
Returned(rows, deps) == [valid |-> TRUE, status |-> "ok", rows |-> rows, deps |-> deps]
Raised(exception, deps) == [valid |-> TRUE, status |-> exception, rows |-> <<>>, deps |-> deps]

\* A calc that has not run since it was created or last invalidated.
Invalidated == [valid |-> FALSE, status |-> "none", rows |-> <<>>, deps |-> {}]

\* (mutant) req() handed the values of the inputs, not their accessors.
current_data_req_called(inp) ==
    << [kind |-> "tuple", name |-> "state", value |-> inp.state],
       [kind |-> "text", name |-> "year", value |-> inp.year],
       [kind |-> "text", name |-> "primary_var", value |-> inp.primary_var] >>

trend_data_req_called(inp) ==
    << [kind |-> "tuple", name |-> "state", value |-> inp.state],
       [kind |-> "text", name |-> "primary_var", value |-> inp.primary_var] >>

\* The arguments of req() in current_data and in trend_data.
current_data_req(inp) == <<Accessor("state"), Accessor("year"), Accessor("primary_var")>>
trend_data_req(inp) == <<Accessor("state"), Accessor("primary_var")>>

\* (mutant) the first row of every state only, as drop_duplicates would keep.
current_frame_first_match(hd, states, yr, var) ==
    LET match == {i \in DOMAIN hd : /\ hd[i].State \in Range(states)
                                    /\ hd[i].year = yr
                                    /\ hd[i].col[var] # NaN}
        first == {i \in match : \A j \in match : hd[j].State = hd[i].State => i <= j}
        kept == SelectSeq([i \in DOMAIN hd |-> [at |-> i, row |-> hd[i]]],
                          LAMBDA e : e.at \in first)
        rank == RankMinDescending([i \in DOMAIN kept |-> kept[i].row.col[var]])
    IN [i \in DOMAIN kept |->
          [State |-> kept[i].row.State, Year |-> kept[i].row.year,
           value |-> kept[i].row.col[var],
           Region |-> get_region(kept[i].row.State), Rank |-> rank[i]]]

\* health_data[State.isin(states) & (year == yr)][['State', 'year', var]]
\*   .rename(columns={var: 'value'}).dropna(subset=['value'])
\* with the Region and Rank columns added and 'year' renamed to 'Year'.
current_frame(hd, states, yr, var) ==
    LET picked == SelectSeq(hd, LAMBDA r : r.State \in Range(states) /\ r.year = yr)
        data == [i \in DOMAIN picked |->
                    [State |-> picked[i].State, year |-> picked[i].year,
                     value |-> picked[i].col[var]]]
        kept == SelectSeq(data, LAMBDA r : r.value # NaN)
        rank == RankMinDescending([i \in DOMAIN kept |-> kept[i].value])
    IN [i \in DOMAIN kept |->
          [State |-> kept[i].State, Year |-> kept[i].year, value |-> kept[i].value,
           Region |-> get_region(kept[i].State), Rank |-> rank[i]]]

\* (mutant) the year is read without a reactive dependency.
current_data_reads_isolated_year(inp) == {"state", "primary_var"}

\* The inputs one run of current_data reads: the states, then the year, and
\* the indicator only if int() accepted the year.
current_data_reads(inp) ==
    IF ~req(current_data_req(inp)) THEN ReadByArgs(current_data_req(inp))
    ELSE ReadByArgs(current_data_req(inp)) \cup
         (IF IsIntLiteral(inp.year) THEN {"state", "year", "primary_var"}
          ELSE {"state", "year"})

current_data(inp, hd) ==
    IF ~req(current_data_req(inp))
    THEN Raised("SilentException", current_data_reads(inp))
    ELSE IF ~IsIntLiteral(inp.year)
    THEN Raised("ValueError", current_data_reads(inp))
    ELSE IF inp.primary_var \notin IndicatorColumns
    THEN Raised("KeyError", current_data_reads(inp))
    ELSE Returned(current_frame(hd, inp.state, int(inp.year), inp.primary_var),
                  current_data_reads(inp))

\* (mutant) the trend sorted by year, as sort_values('year') would leave it.
trend_frame_sorted_by_year(hd, states, var) ==
    LET picked == SelectSeq(hd, LAMBDA r : r.State \in Range(states))
        data == [i \in DOMAIN picked |->
                    [State |-> picked[i].State, year |-> picked[i].year,
                     value |-> picked[i].col[var]]]
        kept == SelectSeq(data, LAMBDA r : r.value # NaN)
    IN CHOOSE frame \in SortAscending(kept, [i \in DOMAIN kept |-> kept[i].year]) : TRUE

\* health_data[State.isin(states)][['State', 'year', var]]
\*   .rename(columns={var: 'value'}).dropna(subset=['value'])
trend_frame(hd, states, var) ==
    LET picked == SelectSeq(hd, LAMBDA r : r.State \in Range(states))
        data == [i \in DOMAIN picked |->
                    [State |-> picked[i].State, year |-> picked[i].year,
                     value |-> picked[i].col[var]]]
    IN SelectSeq(data, LAMBDA r : r.value # NaN)

\* (mutant) trend_data reads the year as well.
trend_data_reads_year(inp) == {"state", "year", "primary_var"}

\* The inputs one run of trend_data reads: the states and the indicator.
trend_data_reads(inp) ==
    IF ~req(trend_data_req(inp)) THEN ReadByArgs(trend_data_req(inp))
    ELSE ReadByArgs(trend_data_req(inp)) \cup {"state", "primary_var"}

trend_data(inp, hd) ==
    IF ~req(trend_data_req(inp))
    THEN Raised("SilentException", trend_data_reads(inp))
    ELSE IF inp.primary_var \notin IndicatorColumns
    THEN Raised("KeyError", trend_data_reads(inp))
    ELSE Returned(trend_frame(hd, inp.state, inp.primary_var), trend_data_reads(inp))

----------------------------------------------------------------------------
(* filtered_states: the state names that contain the search text *)

\* Names and search texts are sequences of code points here.

\* The simple lowercase mapping of Unicode 14.0.0 (the tables of CPython 3.11):
\* <<lo, hi, step, delta>> says that the code points lo, lo + step, .. up to
\* hi become the code point delta further on.
LowerRanges ==
    {<<65, 90, 1, 32>>, <<192, 214, 1, 32>>, <<216, 222, 1, 32>>,
     <<256, 302, 2, 1>>, <<306, 310, 2, 1>>, <<313, 327, 2, 1>>,
     <<330, 374, 2, 1>>, <<376, 376, 1, -121>>, <<377, 381, 2, 1>>,
     <<385, 385, 1, 210>>, <<386, 388, 2, 1>>, <<390, 390, 1, 206>>,
     <<391, 391, 1, 1>>, <<393, 394, 1, 205>>, <<395, 395, 1, 1>>,
     <<398, 398, 1, 79>>, <<399, 399, 1, 202>>, <<400, 400, 1, 203>>,
     <<401, 401, 1, 1>>, <<403, 403, 1, 205>>, <<404, 404, 1, 207>>,
     <<406, 406, 1, 211>>, <<407, 407, 1, 209>>, <<408, 408, 1, 1>>,
     <<412, 412, 1, 211>>, <<413, 413, 1, 213>>, <<415, 415, 1, 214>>,
     <<416, 420, 2, 1>>, <<422, 422, 1, 218>>, <<423, 423, 1, 1>>,
     <<425, 425, 1, 218>>, <<428, 428, 1, 1>>, <<430, 430, 1, 218>>,
     <<431, 431, 1, 1>>, <<433, 434, 1, 217>>, <<435, 437, 2, 1>>,
     <<439, 439, 1, 219>>, <<440, 440, 1, 1>>, <<444, 444, 1, 1>>,
     <<452, 452, 1, 2>>, <<453, 453, 1, 1>>, <<455, 455, 1, 2>>,
     <<456, 456, 1, 1>>, <<458, 458, 1, 2>>, <<459, 475, 2, 1>>,
     <<478, 494, 2, 1>>, <<497, 497, 1, 2>>, <<498, 500, 2, 1>>,
     <<502, 502, 1, -97>>, <<503, 503, 1, -56>>, <<504, 542, 2, 1>>,
     <<544, 544, 1, -130>>, <<546, 562, 2, 1>>, <<570, 570, 1, 10795>>,
     <<571, 571, 1, 1>>, <<573, 573, 1, -163>>, <<574, 574, 1, 10792>>,
     <<577, 577, 1, 1>>, <<579, 579, 1, -195>>, <<580, 580, 1, 69>>,
     <<581, 581, 1, 71>>, <<582, 590, 2, 1>>, <<880, 882, 2, 1>>,
     <<886, 886, 1, 1>>, <<895, 895, 1, 116>>, <<902, 902, 1, 38>>,
     <<904, 906, 1, 37>>, <<908, 908, 1, 64>>, <<910, 911, 1, 63>>,
     <<913, 929, 1, 32>>, <<931, 939, 1, 32>>, <<975, 975, 1, 8>>,
     <<984, 1006, 2, 1>>, <<1012, 1012, 1, -60>>, <<1015, 1015, 1, 1>>,
     <<1017, 1017, 1, -7>>, <<1018, 1018, 1, 1>>, <<1021, 1023, 1, -130>>,
     <<1024, 1039, 1, 80>>, <<1040, 1071, 1, 32>>, <<1120, 1152, 2, 1>>,
     <<1162, 1214, 2, 1>>, <<1216, 1216, 1, 15>>, <<1217, 1229, 2, 1>>,
     <<1232, 1326, 2, 1>>, <<1329, 1366, 1, 48>>, <<4256, 4293, 1, 7264>>,
     <<4295, 4295, 1, 7264>>, <<4301, 4301, 1, 7264>>,
     <<5024, 5103, 1, 38864>>, <<5104, 5109, 1, 8>>,
     <<7312, 7354, 1, -3008>>, <<7357, 7359, 1, -3008>>,
     <<7680, 7828, 2, 1>>, <<7838, 7838, 1, -7615>>, <<7840, 7934, 2, 1>>,
     <<7944, 7951, 1, -8>>, <<7960, 7965, 1, -8>>, <<7976, 7983, 1, -8>>,
     <<7992, 7999, 1, -8>>, <<8008, 8013, 1, -8>>, <<8025, 8031, 2, -8>>,
     <<8040, 8047, 1, -8>>, <<8072, 8079, 1, -8>>, <<8088, 8095, 1, -8>>,
     <<8104, 8111, 1, -8>>, <<8120, 8121, 1, -8>>, <<8122, 8123, 1, -74>>,
     <<8124, 8124, 1, -9>>, <<8136, 8139, 1, -86>>, <<8140, 8140, 1, -9>>,
     <<8152, 8153, 1, -8>>, <<8154, 8155, 1, -100>>, <<8168, 8169, 1, -8>>,
     <<8170, 8171, 1, -112>>, <<8172, 8172, 1, -7>>, <<8184, 8185, 1, -128>>,
     <<8186, 8187, 1, -126>>, <<8188, 8188, 1, -9>>,
     <<8486, 8486, 1, -7517>>, <<8490, 8490, 1, -8383>>,
     <<8491, 8491, 1, -8262>>, <<8498, 8498, 1, 28>>, <<8544, 8559, 1, 16>>,
     <<8579, 8579, 1, 1>>, <<9398, 9423, 1, 26>>, <<11264, 11311, 1, 48>>,
     <<11360, 11360, 1, 1>>, <<11362, 11362, 1, -10743>>,
     <<11363, 11363, 1, -3814>>, <<11364, 11364, 1, -10727>>,
     <<11367, 11371, 2, 1>>, <<11373, 11373, 1, -10780>>,
     <<11374, 11374, 1, -10749>>, <<11375, 11375, 1, -10783>>,
     <<11376, 11376, 1, -10782>>, <<11378, 11378, 1, 1>>,
     <<11381, 11381, 1, 1>>, <<11390, 11391, 1, -10815>>,
     <<11392, 11490, 2, 1>>, <<11499, 11501, 2, 1>>, <<11506, 11506, 1, 1>>,
     <<42560, 42604, 2, 1>>, <<42624, 42650, 2, 1>>, <<42786, 42798, 2, 1>>,
     <<42802, 42862, 2, 1>>, <<42873, 42875, 2, 1>>,
     <<42877, 42877, 1, -35332>>, <<42878, 42886, 2, 1>>,
     <<42891, 42891, 1, 1>>, <<42893, 42893, 1, -42280>>,
     <<42896, 42898, 2, 1>>, <<42902, 42920, 2, 1>>,
     <<42922, 42922, 1, -42308>>, <<42923, 42923, 1, -42319>>,
     <<42924, 42924, 1, -42315>>, <<42925, 42925, 1, -42305>>,
     <<42926, 42926, 1, -42308>>, <<42928, 42928, 1, -42258>>,
     <<42929, 42929, 1, -42282>>, <<42930, 42930, 1, -42261>>,
     <<42931, 42931, 1, 928>>, <<42932, 42946, 2, 1>>,
     <<42948, 42948, 1, -48>>, <<42949, 42949, 1, -42307>>,
     <<42950, 42950, 1, -35384>>, <<42951, 42953, 2, 1>>,
     <<42960, 42960, 1, 1>>, <<42966, 42968, 2, 1>>, <<42997, 42997, 1, 1>>,
     <<65313, 65338, 1, 32>>, <<66560, 66599, 1, 40>>,
     <<66736, 66771, 1, 40>>, <<66928, 66938, 1, 39>>,
     <<66940, 66954, 1, 39>>, <<66956, 66962, 1, 39>>,
     <<66964, 66965, 1, 39>>, <<68736, 68786, 1, 64>>,
     <<71840, 71871, 1, 32>>, <<93760, 93791, 1, 32>>,
     <<125184, 125217, 1, 34>>}

\* The case-ignorable code points (Case_Ignorable), as ranges <<lo, hi>>.
CaseIgnorableRanges ==
    {<<39, 39>>, <<46, 46>>, <<58, 58>>, <<94, 94>>, <<96, 96>>,
     <<168, 168>>, <<173, 173>>, <<175, 175>>, <<180, 180>>, <<183, 184>>,
     <<688, 879>>, <<884, 885>>, <<890, 890>>, <<900, 901>>, <<903, 903>>,
     <<1155, 1161>>, <<1369, 1369>>, <<1375, 1375>>, <<1425, 1469>>,
     <<1471, 1471>>, <<1473, 1474>>, <<1476, 1477>>, <<1479, 1479>>,
     <<1524, 1524>>, <<1536, 1541>>, <<1552, 1562>>, <<1564, 1564>>,
     <<1600, 1600>>, <<1611, 1631>>, <<1648, 1648>>, <<1750, 1757>>,
     <<1759, 1768>>, <<1770, 1773>>, <<1807, 1807>>, <<1809, 1809>>,
     <<1840, 1866>>, <<1958, 1968>>, <<2027, 2037>>, <<2042, 2042>>,
     <<2045, 2045>>, <<2070, 2093>>, <<2137, 2139>>, <<2184, 2184>>,
     <<2192, 2193>>, <<2200, 2207>>, <<2249, 2306>>, <<2362, 2362>>,
     <<2364, 2364>>, <<2369, 2376>>, <<2381, 2381>>, <<2385, 2391>>,
     <<2402, 2403>>, <<2417, 2417>>, <<2433, 2433>>, <<2492, 2492>>,
     <<2497, 2500>>, <<2509, 2509>>, <<2530, 2531>>, <<2558, 2558>>,
     <<2561, 2562>>, <<2620, 2620>>, <<2625, 2626>>, <<2631, 2632>>,
     <<2635, 2637>>, <<2641, 2641>>, <<2672, 2673>>, <<2677, 2677>>,
     <<2689, 2690>>, <<2748, 2748>>, <<2753, 2757>>, <<2759, 2760>>,
     <<2765, 2765>>, <<2786, 2787>>, <<2810, 2815>>, <<2817, 2817>>,
     <<2876, 2876>>, <<2879, 2879>>, <<2881, 2884>>, <<2893, 2893>>,
     <<2901, 2902>>, <<2914, 2915>>, <<2946, 2946>>, <<3008, 3008>>,
     <<3021, 3021>>, <<3072, 3072>>, <<3076, 3076>>, <<3132, 3132>>,
     <<3134, 3136>>, <<3142, 3144>>, <<3146, 3149>>, <<3157, 3158>>,
     <<3170, 3171>>, <<3201, 3201>>, <<3260, 3260>>, <<3263, 3263>>,
     <<3270, 3270>>, <<3276, 3277>>, <<3298, 3299>>, <<3328, 3329>>,
     <<3387, 3388>>, <<3393, 3396>>, <<3405, 3405>>, <<3426, 3427>>,
     <<3457, 3457>>, <<3530, 3530>>, <<3538, 3540>>, <<3542, 3542>>,
     <<3633, 3633>>, <<3636, 3642>>, <<3654, 3662>>, <<3761, 3761>>,
     <<3764, 3772>>, <<3782, 3782>>, <<3784, 3789>>, <<3864, 3865>>,
     <<3893, 3893>>, <<3895, 3895>>, <<3897, 3897>>, <<3953, 3966>>,
     <<3968, 3972>>, <<3974, 3975>>, <<3981, 3991>>, <<3993, 4028>>,
     <<4038, 4038>>, <<4141, 4144>>, <<4146, 4151>>, <<4153, 4154>>,
     <<4157, 4158>>, <<4184, 4185>>, <<4190, 4192>>, <<4209, 4212>>,
     <<4226, 4226>>, <<4229, 4230>>, <<4237, 4237>>, <<4253, 4253>>,
     <<4348, 4348>>, <<4957, 4959>>, <<5906, 5908>>, <<5938, 5939>>,
     <<5970, 5971>>, <<6002, 6003>>, <<6068, 6069>>, <<6071, 6077>>,
     <<6086, 6086>>, <<6089, 6099>>, <<6103, 6103>>, <<6109, 6109>>,
     <<6155, 6159>>, <<6211, 6211>>, <<6277, 6278>>, <<6313, 6313>>,
     <<6432, 6434>>, <<6439, 6440>>, <<6450, 6450>>, <<6457, 6459>>,
     <<6679, 6680>>, <<6683, 6683>>, <<6742, 6742>>, <<6744, 6750>>,
     <<6752, 6752>>, <<6754, 6754>>, <<6757, 6764>>, <<6771, 6780>>,
     <<6783, 6783>>, <<6823, 6823>>, <<6832, 6862>>, <<6912, 6915>>,
     <<6964, 6964>>, <<6966, 6970>>, <<6972, 6972>>, <<6978, 6978>>,
     <<7019, 7027>>, <<7040, 7041>>, <<7074, 7077>>, <<7080, 7081>>,
     <<7083, 7085>>, <<7142, 7142>>, <<7144, 7145>>, <<7149, 7149>>,
     <<7151, 7153>>, <<7212, 7219>>, <<7222, 7223>>, <<7288, 7293>>,
     <<7376, 7378>>, <<7380, 7392>>, <<7394, 7400>>, <<7405, 7405>>,
     <<7412, 7412>>, <<7416, 7417>>, <<7468, 7530>>, <<7544, 7544>>,
     <<7579, 7679>>, <<8125, 8125>>, <<8127, 8129>>, <<8141, 8143>>,
     <<8157, 8159>>, <<8173, 8175>>, <<8189, 8190>>, <<8203, 8207>>,
     <<8216, 8217>>, <<8228, 8228>>, <<8231, 8231>>, <<8234, 8238>>,
     <<8288, 8292>>, <<8294, 8303>>, <<8305, 8305>>, <<8319, 8319>>,
     <<8336, 8348>>, <<8400, 8432>>, <<11388, 11389>>, <<11503, 11505>>,
     <<11631, 11631>>, <<11647, 11647>>, <<11744, 11775>>, <<11823, 11823>>,
     <<12293, 12293>>, <<12330, 12333>>, <<12337, 12341>>, <<12347, 12347>>,
     <<12441, 12446>>, <<12540, 12542>>, <<40981, 40981>>, <<42232, 42237>>,
     <<42508, 42508>>, <<42607, 42610>>, <<42612, 42621>>, <<42623, 42623>>,
     <<42652, 42655>>, <<42736, 42737>>, <<42752, 42785>>, <<42864, 42864>>,
     <<42888, 42890>>, <<42994, 42996>>, <<43000, 43001>>, <<43010, 43010>>,
     <<43014, 43014>>, <<43019, 43019>>, <<43045, 43046>>, <<43052, 43052>>,
     <<43204, 43205>>, <<43232, 43249>>, <<43263, 43263>>, <<43302, 43309>>,
     <<43335, 43345>>, <<43392, 43394>>, <<43443, 43443>>, <<43446, 43449>>,
     <<43452, 43453>>, <<43471, 43471>>, <<43493, 43494>>, <<43561, 43566>>,
     <<43569, 43570>>, <<43573, 43574>>, <<43587, 43587>>, <<43596, 43596>>,
     <<43632, 43632>>, <<43644, 43644>>, <<43696, 43696>>, <<43698, 43700>>,
     <<43703, 43704>>, <<43710, 43711>>, <<43713, 43713>>, <<43741, 43741>>,
     <<43756, 43757>>, <<43763, 43764>>, <<43766, 43766>>, <<43867, 43871>>,
     <<43881, 43883>>, <<44005, 44005>>, <<44008, 44008>>, <<44013, 44013>>,
     <<64286, 64286>>, <<64434, 64450>>, <<65024, 65039>>, <<65043, 65043>>,
     <<65056, 65071>>, <<65106, 65106>>, <<65109, 65109>>, <<65279, 65279>>,
     <<65287, 65287>>, <<65294, 65294>>, <<65306, 65306>>, <<65342, 65342>>,
     <<65344, 65344>>, <<65392, 65392>>, <<65438, 65439>>, <<65507, 65507>>,
     <<65529, 65531>>, <<66045, 66045>>, <<66272, 66272>>, <<66422, 66426>>,
     <<67456, 67461>>, <<67463, 67504>>, <<67506, 67514>>, <<68097, 68099>>,
     <<68101, 68102>>, <<68108, 68111>>, <<68152, 68154>>, <<68159, 68159>>,
     <<68325, 68326>>, <<68900, 68903>>, <<69291, 69292>>, <<69446, 69456>>,
     <<69506, 69509>>, <<69633, 69633>>, <<69688, 69702>>, <<69744, 69744>>,
     <<69747, 69748>>, <<69759, 69761>>, <<69811, 69814>>, <<69817, 69818>>,
     <<69821, 69821>>, <<69826, 69826>>, <<69837, 69837>>, <<69888, 69890>>,
     <<69927, 69931>>, <<69933, 69940>>, <<70003, 70003>>, <<70016, 70017>>,
     <<70070, 70078>>, <<70089, 70092>>, <<70095, 70095>>, <<70191, 70193>>,
     <<70196, 70196>>, <<70198, 70199>>, <<70206, 70206>>, <<70367, 70367>>,
     <<70371, 70378>>, <<70400, 70401>>, <<70459, 70460>>, <<70464, 70464>>,
     <<70502, 70508>>, <<70512, 70516>>, <<70712, 70719>>, <<70722, 70724>>,
     <<70726, 70726>>, <<70750, 70750>>, <<70835, 70840>>, <<70842, 70842>>,
     <<70847, 70848>>, <<70850, 70851>>, <<71090, 71093>>, <<71100, 71101>>,
     <<71103, 71104>>, <<71132, 71133>>, <<71219, 71226>>, <<71229, 71229>>,
     <<71231, 71232>>, <<71339, 71339>>, <<71341, 71341>>, <<71344, 71349>>,
     <<71351, 71351>>, <<71453, 71455>>, <<71458, 71461>>, <<71463, 71467>>,
     <<71727, 71735>>, <<71737, 71738>>, <<71995, 71996>>, <<71998, 71998>>,
     <<72003, 72003>>, <<72148, 72151>>, <<72154, 72155>>, <<72160, 72160>>,
     <<72193, 72202>>, <<72243, 72248>>, <<72251, 72254>>, <<72263, 72263>>,
     <<72273, 72278>>, <<72281, 72283>>, <<72330, 72342>>, <<72344, 72345>>,
     <<72752, 72758>>, <<72760, 72765>>, <<72767, 72767>>, <<72850, 72871>>,
     <<72874, 72880>>, <<72882, 72883>>, <<72885, 72886>>, <<73009, 73014>>,
     <<73018, 73018>>, <<73020, 73021>>, <<73023, 73029>>, <<73031, 73031>>,
     <<73104, 73105>>, <<73109, 73109>>, <<73111, 73111>>, <<73459, 73460>>,
     <<78896, 78904>>, <<92912, 92916>>, <<92976, 92982>>, <<92992, 92995>>,
     <<94031, 94031>>, <<94095, 94111>>, <<94176, 94177>>, <<94179, 94180>>,
     <<110576, 110579>>, <<110581, 110587>>, <<110589, 110590>>,
     <<113821, 113822>>, <<113824, 113827>>, <<118528, 118573>>,
     <<118576, 118598>>, <<119143, 119145>>, <<119155, 119170>>,
     <<119173, 119179>>, <<119210, 119213>>, <<119362, 119364>>,
     <<121344, 121398>>, <<121403, 121452>>, <<121461, 121461>>,
     <<121476, 121476>>, <<121499, 121503>>, <<121505, 121519>>,
     <<122880, 122886>>, <<122888, 122904>>, <<122907, 122913>>,
     <<122915, 122916>>, <<122918, 122922>>, <<123184, 123197>>,
     <<123566, 123566>>, <<123628, 123631>>, <<125136, 125142>>,
     <<125252, 125259>>, <<127995, 127999>>, <<917505, 917505>>,
     <<917536, 917631>>, <<917760, 917999>>}

\* The cased code points (Cased) that are not case-ignorable, as ranges <<lo, hi>>.
CasedRanges ==
    {<<65, 90>>, <<97, 122>>, <<170, 170>>, <<181, 181>>, <<186, 186>>,
     <<192, 214>>, <<216, 246>>, <<248, 442>>, <<444, 447>>, <<452, 659>>,
     <<661, 687>>, <<880, 883>>, <<886, 887>>, <<891, 893>>, <<895, 895>>,
     <<902, 902>>, <<904, 906>>, <<908, 908>>, <<910, 929>>, <<931, 1013>>,
     <<1015, 1153>>, <<1162, 1327>>, <<1329, 1366>>, <<1376, 1416>>,
     <<4256, 4293>>, <<4295, 4295>>, <<4301, 4301>>, <<4304, 4346>>,
     <<4349, 4351>>, <<5024, 5109>>, <<5112, 5117>>, <<7296, 7304>>,
     <<7312, 7354>>, <<7357, 7359>>, <<7424, 7467>>, <<7531, 7543>>,
     <<7545, 7578>>, <<7680, 7957>>, <<7960, 7965>>, <<7968, 8005>>,
     <<8008, 8013>>, <<8016, 8023>>, <<8025, 8025>>, <<8027, 8027>>,
     <<8029, 8029>>, <<8031, 8061>>, <<8064, 8116>>, <<8118, 8124>>,
     <<8126, 8126>>, <<8130, 8132>>, <<8134, 8140>>, <<8144, 8147>>,
     <<8150, 8155>>, <<8160, 8172>>, <<8178, 8180>>, <<8182, 8188>>,
     <<8450, 8450>>, <<8455, 8455>>, <<8458, 8467>>, <<8469, 8469>>,
     <<8473, 8477>>, <<8484, 8484>>, <<8486, 8486>>, <<8488, 8488>>,
     <<8490, 8493>>, <<8495, 8500>>, <<8505, 8505>>, <<8508, 8511>>,
     <<8517, 8521>>, <<8526, 8526>>, <<8544, 8575>>, <<8579, 8580>>,
     <<9398, 9449>>, <<11264, 11387>>, <<11390, 11492>>, <<11499, 11502>>,
     <<11506, 11507>>, <<11520, 11557>>, <<11559, 11559>>, <<11565, 11565>>,
     <<42560, 42605>>, <<42624, 42651>>, <<42786, 42863>>, <<42865, 42887>>,
     <<42891, 42894>>, <<42896, 42954>>, <<42960, 42961>>, <<42963, 42963>>,
     <<42965, 42969>>, <<42997, 42998>>, <<43002, 43002>>, <<43824, 43866>>,
     <<43872, 43880>>, <<43888, 43967>>, <<64256, 64262>>, <<64275, 64279>>,
     <<65313, 65338>>, <<65345, 65370>>, <<66560, 66639>>, <<66736, 66771>>,
     <<66776, 66811>>, <<66928, 66938>>, <<66940, 66954>>, <<66956, 66962>>,
     <<66964, 66965>>, <<66967, 66977>>, <<66979, 66993>>, <<66995, 67001>>,
     <<67003, 67004>>, <<68736, 68786>>, <<68800, 68850>>, <<71840, 71903>>,
     <<93760, 93823>>, <<119808, 119892>>, <<119894, 119964>>,
     <<119966, 119967>>, <<119970, 119970>>, <<119973, 119974>>,
     <<119977, 119980>>, <<119982, 119993>>, <<119995, 119995>>,
     <<119997, 120003>>, <<120005, 120069>>, <<120071, 120074>>,
     <<120077, 120084>>, <<120086, 120092>>, <<120094, 120121>>,
     <<120123, 120126>>, <<120128, 120132>>, <<120134, 120134>>,
     <<120138, 120144>>, <<120146, 120485>>, <<120488, 120512>>,
     <<120514, 120538>>, <<120540, 120570>>, <<120572, 120596>>,
     <<120598, 120628>>, <<120630, 120654>>, <<120656, 120686>>,
     <<120688, 120712>>, <<120714, 120744>>, <<120746, 120770>>,
     <<120772, 120779>>, <<122624, 122633>>, <<122635, 122654>>,
     <<125184, 125251>>, <<127280, 127305>>, <<127312, 127337>>,
     <<127344, 127369>>}

InRanges(c, ranges) == \E r \in ranges : r[1] <= c /\ c <= r[2]

\* str.lower() on a text of the one code point c: the code points it
\* becomes. The capital I with dot above (U+0130) becomes an i and a
\* combining dot, every other code point the one its simple lowercase
\* mapping gives, or itself.
lower_char(c) ==
    IF c = 304 THEN <<105, 775>>
    ELSE LET hit == {r \in LowerRanges :
                        r[1] <= c /\ c <= r[2] /\ (c - r[1]) % r[3] = 0}
         IN IF hit = {} THEN <<c>> ELSE <<c + (CHOOSE r \in hit : TRUE)[4]>>

\* The capital sigma at place i of s stands at the end of a word: going
\* back over the case-ignorable code points a cased one is found, and
\* going on over the case-ignorable ones no cased one is.
final_sigma(s, i) ==
    LET before == {j \in 1..(i - 1) : ~InRanges(s[j], CaseIgnorableRanges)}
        after == {j \in (i + 1)..Len(s) : ~InRanges(s[j], CaseIgnorableRanges)}
    IN /\ before # {}
       /\ InRanges(s[CHOOSE j \in before : \A k \in before : k <= j], CasedRanges)
       /\ \/ after = {}
          \/ ~InRanges(s[CHOOSE j \in after : \A k \in after : j <= k], CasedRanges)

\* str.lower() on a text: code point by code point, but for the capital
\* sigma (U+03A3), which becomes the final small sigma (U+03C2) at the end
\* of a word and the small sigma (U+03C3) elsewhere.
RECURSIVE lower_from(_, _)
lower_from(s, i) ==
    IF i > Len(s) THEN <<>>
    ELSE (IF s[i] = 931 THEN <<IF final_sigma(s, i) THEN 962 ELSE 963>>
          ELSE lower_char(s[i]))
         \o lower_from(s, i + 1)

lower(s) == lower_from(s, 1)

\* a < b for two texts: Python compares them code point by code point, a
\* proper prefix coming first.
RECURSIVE text_less(_, _)
text_less(a, b) ==
    IF b = <<>> THEN FALSE
    ELSE IF a = <<>> THEN TRUE
    ELSE IF Head(a) # Head(b) THEN Head(a) < Head(b)
    ELSE text_less(Tail(a), Tail(b))

RECURSIVE insert_text(_, _)
insert_text(sorted_, name) ==
    IF sorted_ = <<>> THEN <<name>>
    ELSE IF text_less(name, sorted_[Len(sorted_)])
         THEN Append(insert_text(SubSeq(sorted_, 1, Len(sorted_) - 1), name),
                     sorted_[Len(sorted_)])
         ELSE Append(sorted_, name)

\* sorted(names)
RECURSIVE sorted(_)
sorted(names) ==
    IF names = <<>> THEN <<>>
    ELSE insert_text(sorted(SubSeq(names, 1, Len(names) - 1)), names[Len(names)])

\* needle in hay
contains(hay, needle) ==
    \E off \in 0..(Len(hay) - Len(needle)) :
        \A k \in DOMAIN needle : hay[off + k] = needle[k]

\* (mutant) the state name is compared as it is written.
state_as_written(state) == state

\* state.lower(), for a state of the list comprehension.
state_lower(state) == lower(state)

filtered_states_list(search, hd) ==
    LET search_term == IF search # <<>> THEN lower(search) ELSE <<>>
        all_states_ == sorted(unique(StateColumn(hd)))
        filtered == SelectSeq(all_states_, LAMBDA state : contains(state_lower(state), search_term))
    IN IF search_term # <<>>
       THEN (IF filtered # <<>> THEN filtered ELSE all_states_)
       ELSE all_states_

filtered_states(inp, hd) ==
    Returned(filtered_states_list(inp.state_search, hd), {"state_search"})

----------------------------------------------------------------------------
(* The outputs *)

\* One rendering of an output, with what the render function read.
Rendering(kind, columns, rows, label, deps) ==
    [valid |-> TRUE, kind |-> kind, columns |-> columns, rows |-> rows,
     label |-> label, deps |-> deps]

\* An output that has to run again (or has never run).
Pending ==
    [valid |-> FALSE, kind |-> "pending", columns |-> <<>>, rows |-> <<>>,
     label |-> <<>>, deps |-> {}]

\* An exception of a calc reaches the output that called it.
Failed(exception, deps) == Rendering("error", <<>>, <<>>, <<exception>>, deps)

ValueColumn(rows) == [i \in DOMAIN rows |-> rows[i].value]

\* indicator_names of the status card, and of the two charts.
indicator_names ==
    (Obesity :> "Obesity Rate" @@ Smoking :> "Smoking Rate"
     @@ Physical :> "Physically Unhealthy Days" @@ Mental :> "Mentally Unhealthy Days")

chart_indicator_names ==
    (Obesity :> "Obesity Rate (%)" @@ Smoking :> "Smoking Rate (%)"
     @@ Physical :> "Physically Unhealthy Days" @@ Mental :> "Mentally Unhealthy Days")

y_label(var) ==
    IF var \in DOMAIN chart_indicator_names THEN chart_indicator_names[var] ELSE "Value"

state_count(inp) ==
    Rendering("text", <<>>, <<IF inp.state # <<>> THEN Len(inp.state) ELSE 0>>, <<>>, {"state"})

selected_year(inp) ==
    Rendering("text", <<>>, <<>>, <<IF inp.year # "" THEN inp.year ELSE "Not selected">>,
              {"year"})

selected_indicator(inp) ==
    Rendering("text", <<>>, <<>>,
              <<IF inp.primary_var = "" THEN "Not selected"
                ELSE IF inp.primary_var \in DOMAIN indicator_names
                     THEN indicator_names[inp.primary_var]
                     ELSE "Unknown Indicator">>,
              {"primary_var"})

\* px.bar over the slice sorted by value, titled with the indicator and
\* year: the figures the run may give, one for every outcome of the sort.
bar_plot(data, inp) ==
    IF data.status # "ok" THEN {Failed(data.status, {"current_data"})}
    ELSE IF data.rows = <<>> THEN {Rendering("None", <<>>, <<>>, <<>>, {"current_data"})}
    ELSE {Rendering("figure", <<"value", "State">>, sorted_data,
                    <<y_label(inp.primary_var), "Comparison", inp.year>>,
                    {"current_data", "primary_var", "year"}) :
             sorted_data \in SortAscending(data.rows, ValueColumn(data.rows))}

\* px.line(color='State'): one line per state, the states in order of first
\* appearance, the points of a line in the order of the rows.
RECURSIVE LinesByState(_, _)
LinesByState(rows, states) ==
    IF states = <<>> THEN <<>>
    ELSE <<SelectSeq(rows, LAMBDA r : r.State = Head(states))>>
         \o LinesByState(rows, Tail(states))

trend_plot(data, inp) ==
    IF data.status # "ok" THEN Failed(data.status, {"trend_data"})
    ELSE IF data.rows = <<>> THEN Rendering("None", <<>>, <<>>, <<>>, {"trend_data"})
    ELSE Rendering("figure", <<"year", "value", "State">>,
                   LinesByState(data.rows,
                                unique([i \in DOMAIN data.rows |-> data.rows[i].State])),
                   <<y_label(inp.primary_var), "Trends Over Time">>,
                   {"trend_data", "primary_var"})

\* floor(log2(num / den)), for num, den > 0.
RECURSIVE FloorLog2(_, _)
FloorLog2(num, den) ==
    IF num >= 2 * den THEN FloorLog2(num, 2 * den) + 1
    ELSE IF num < den THEN FloorLog2(2 * num, den) - 1
    ELSE 0

\* 2^s modulo 1000.
RECURSIVE Pow2Mod1000(_)
Pow2Mod1000(s) == IF s = 0 THEN 1 ELSE (2 * Pow2Mod1000(s - 1)) % 1000

\* The double nearest to v/1000 is (v * 2^s + d) / (1000 * 2^s), s being the
\* scale that gives a 53-bit mantissa: d, in -499..499, is what the
\* mantissa rounded to nearest adds to v * 2^s.
DoubleError(v) ==
    LET s == 52 - FloorLog2(v, 1000)
        r == ((v % 1000) * Pow2Mod1000(s)) % 1000
    IN IF r < 500 THEN 0 - r ELSE 1000 - r

\* Series.round(2) on a value of v thousandths: numpy computes
\* rint(x * 100) / 100 on doubles. A value that is not half way between two
\* hundredths goes to the nearest hundredth. For v = 10k + 5 the product
\* x * 100 is the double k + 0.5 itself when the error of x is too small to
\* move it (the product has 7 more bits before the point than x, or 6 and
\* |d| <= 320), and rint takes the even neighbour; otherwise the product
\* lies on the side of the error of x, and rint takes the neighbour on
\* that side.
Round2(v) ==
    IF v % 10 # 5 THEN (IF v % 10 < 5 THEN v - (v % 10) ELSE v - (v % 10) + 10)
    ELSE LET k == v \div 10
             d == DoubleError(v)
             half_kept == \/ FloorLog2(v, 10) - FloorLog2(v, 1000) = 7
                          \/ (d <= 320 /\ d >= -320)
         IN IF half_kept THEN (IF k % 2 = 0 THEN 10 * k ELSE 10 * (k + 1))
            ELSE IF d < 0 THEN 10 * k ELSE 10 * (k + 1)

col_mapping ==
    ("State" :> "State" @@ "Year" :> "Year" @@ "Value" :> "value"
     @@ "Region" :> "Region" @@ "Rank" :> "Rank")

rename_mapping ==
    ("State" :> "State" @@ "Year" :> "Year" @@ "value" :> "Value"
     @@ "Region" :> "Region" @@ "Rank" :> "Rank")

\* The cell of slice row r under the slice column c.
Cell(r, c) ==
    CASE c = "State" -> r.State
      [] c = "Year" -> r.Year
      [] c = "value" -> r.value
      [] c = "Region" -> r.Region
      [] c = "Rank" -> r.Rank

\* The table: a copy of the chosen columns of the slice in the order chosen,
\* 'value' shown as 'Value' and rounded, the rows sorted by Value (greatest
\* first) when Value is shown: the tables the run may give, one for every
\* outcome of the sort.
display_data(rows, selected_cols) ==
    LET known == SelectSeq(selected_cols, LAMBDA c : c \in DOMAIN col_mapping)
        final_cols == [i \in DOMAIN known |-> rename_mapping[col_mapping[known[i]]]]
        copy == [i \in DOMAIN rows |->
                   [c \in Range(final_cols) |->
                      LET cell == Cell(rows[i],
                                       CHOOSE o \in DOMAIN rename_mapping :
                                           rename_mapping[o] = c)
                      IN IF c = "Value" THEN Round2(cell) ELSE cell]]
    IN {[columns |-> final_cols, rows |-> rows_shown] :
           rows_shown \in IF "Value" \in Range(final_cols)
                          THEN SortDescending(copy, [i \in DOMAIN copy |-> copy[i]["Value"]])
                          ELSE {copy}}

data_table(data, inp) ==
    IF data.status # "ok" THEN {Failed(data.status, {"current_data"})}
    ELSE IF data.rows = <<>> THEN {Rendering("frame", <<>>, <<>>, <<>>, {"current_data"})}
    ELSE LET selected_cols == IF inp.table_columns # <<>> THEN inp.table_columns
                              ELSE <<"State", "Year", "Value">>
         IN {Rendering("frame", shown.columns, shown.rows, <<>>,
                       {"current_data", "table_columns"}) :
                shown \in display_data(data.rows, selected_cols)}

\* (mutant) the Value column rounded in the slice itself, as a table built
\* without .copy() on a view of the slice would do.
slice_rounded_in_place(data, inp) ==
    IF data.status # "ok" THEN data
    ELSE [data EXCEPT !.rows = [i \in DOMAIN @ |-> [@[i] EXCEPT !.value = Round2(@)]]]

\* The cached frame of current_data once data_table has run: the table is
\* built on display_data, a .copy() of the chosen columns, so the frame the
\* calc holds is as it was.
slice_after_data_table(data, inp) == data

----------------------------------------------------------------------------
(* The session: invalidation and the flush that follows every message *)

CalcNames == {"current_data", "trend_data", "filtered_states"}
OutputNames == {"state_count", "selected_year", "selected_indicator",
                "bar_plot", "trend_plot", "data_table"}

\* The panel of the chart navset that holds an output (the status cards are
\* outside the navset and always shown).
panel_of ==
    ("bar_plot" :> "Bar Chart" @@ "trend_plot" :> "Trend Chart"
     @@ "data_table" :> "Data Table")

Panels == {"Bar Chart", "Trend Chart", "Data Table"}

Shown(o, t) == o \notin DOMAIN panel_of \/ panel_of[o] = t

\* The calc an output calls first.
calc_of ==
    ("bar_plot" :> "current_data" @@ "data_table" :> "current_data"
     @@ "trend_plot" :> "trend_data")

\* (mutant) a cache keyed on the whole selection: any change drops it.
StaleOnAnyChange(cached, changed) == cached.valid /\ changed # {}

\* A cached result is dropped when an input it read was set to another value.
Stale(cached, changed) == cached.valid /\ cached.deps \cap changed # {}

\* One run of calc n.
Compute(n, inp, hd) ==
    CASE n = "current_data" -> current_data(inp, hd)
      [] n = "trend_data" -> trend_data(inp, hd)
      [] n = "filtered_states" -> filtered_states(inp, hd)

\* One run of output o, reading the calcs c: the renderings it may give.
Render(o, c, inp) ==
    CASE o = "state_count" -> {state_count(inp)}
      [] o = "selected_year" -> {selected_year(inp)}
      [] o = "selected_indicator" -> {selected_indicator(inp)}
      [] o = "bar_plot" -> bar_plot(c["current_data"], inp)
      [] o = "trend_plot" -> {trend_plot(c["trend_data"], inp)}
      [] o = "data_table" -> data_table(c["current_data"], inp)

\* Every way of taking one rendering among choices[o] for each output o of
\* the set names.
RECURSIVE Renderings(_, _)
Renderings(choices, names) ==
    IF names = {} THEN { <<>> }
    ELSE LET o == CHOOSE x \in names : TRUE
         IN {(o :> r) @@ rest : r \in choices[o], rest \in Renderings(choices, names \ {o})}

\* The session after a message that set the inputs named in `changed` (to
\* other values) and left panel t shown: the calcs that read a changed
\* input are invalidated, then the outputs that read a changed input or an
\* invalidated calc; the flush runs every invalidated output that is shown,
\* and an output that runs calls its calc, which runs only if it holds no
\* valid result. The outcome is any one of the set.
Flush(c, out, inp, hd, t, changed) ==
    LET c1 == [n \in CalcNames |-> IF Stale(c[n], changed) THEN Invalidated ELSE c[n]]
        dropped == {n \in CalcNames : Stale(c[n], changed)}
        out1 == [o \in OutputNames |->
                    IF Stale(out[o], changed \cup dropped) THEN Pending ELSE out[o]]
        running == {o \in OutputNames : Shown(o, t) /\ ~out1[o].valid}
        called == {calc_of[o] : o \in running \cap DOMAIN calc_of}
        computed == {n \in called : ~c1[n].valid}
        c2 == [n \in CalcNames |-> IF n \in computed THEN Compute(n, inp, hd) ELSE c1[n]]
        choices == [o \in OutputNames |->
                       IF o \in running THEN Render(o, c2, inp) ELSE {out1[o]}]
        c3 == [c2 EXCEPT !["current_data"] =
                  IF "data_table" \in running THEN slice_after_data_table(@, inp) ELSE @]
    IN {[calc |-> c3, output |-> out2, ran |-> running \cup computed] :
           out2 \in Renderings(choices, OutputNames)}

\* The names of the inputs whose value differs between a and b.
Changed(a, b) == {k \in DOMAIN a : a[k] # b[k]}

\* The server handles one message of the client: the inputs become inp, the
\* panel shown t, and the flush follows.
Handle(inp, t, ev) ==
    \E after \in Flush(calc, output, inp, health_data, t, Changed(input, inp)) :
       /\ input' = inp
       /\ tab' = t
       /\ calc' = after.calc
       /\ output' = after.output
       /\ ran' = after.ran
       /\ event' = ev
       /\ UNCHANGED <<tutorial_step, modal, health_data>>

----------------------------------------------------------------------------
(* The tutorial: what the server sends and what the client makes of it *)

step_names == <<"Step 1", "Step 2", "Step 3", "Step 4">>

\* The modal on the page of the client: whether it is there, the tab of
\* tutorial_tabs it shows, and whether its two buttons are disabled.
ModalClosed ==
    [open |-> FALSE, selected |-> "Step 1", prev_step |-> FALSE, next_step |-> FALSE]

\* The modal as ui.modal builds it: the first tab, both buttons enabled.
ModalShown ==
    [open |-> TRUE, selected |-> "Step 1", prev_step |-> FALSE, next_step |-> FALSE]

\* ui.modal_show and ui.modal_remove send their message at once; the
\* ui.update_* calls of one handler are sent together when its flush ends.
modal_show == [type |-> "modal_show", updates |-> <<>>]
modal_remove == [type |-> "modal_remove", updates |-> <<>>]
input_messages(updates) == [type |-> "inputMessages", updates |-> updates]

update_action_button(id, disabled) == [id |-> id, value |-> disabled]
update_navs(id, selected) == [id |-> id, value |-> selected]

\* The messages show_tutorial sends.
show_tutorial_messages ==
    << modal_show,
       input_messages(<< update_action_button("prev_step", TRUE),
                         update_action_button("next_step", FALSE) >>) >>

\* (mutant) the buttons set for the step that was left.
step_messages_for_step_left(current_step, new_step) ==
    << input_messages(<< update_navs("tutorial_tabs", step_names[new_step + 1]),
                         update_action_button("prev_step", current_step = 0),
                         update_action_button("next_step", current_step = 3) >>) >>

\* The messages next_tutorial_step and prev_tutorial_step send on moving
\* from current_step to new_step.
step_messages(current_step, new_step) ==
    << input_messages(<< update_navs("tutorial_tabs", step_names[new_step + 1]),
                         update_action_button("prev_step", new_step = 0),
                         update_action_button("next_step", new_step = 3) >>) >>

\* The client applies the updates of one inputMessages message in turn.
RECURSIVE ApplyUpdates(_, _)
ApplyUpdates(m, updates) ==
    IF updates = <<>> THEN m
    ELSE LET u == Head(updates)
             m1 == CASE u.id = "prev_step" -> [m EXCEPT !.prev_step = u.value]
                     [] u.id = "next_step" -> [m EXCEPT !.next_step = u.value]
                     [] u.id = "tutorial_tabs" -> [m EXCEPT !.selected = u.value]
         IN ApplyUpdates(m1, Tail(updates))

\* The modal after the client has handled one message: a shown modal takes
\* the place of the one before, and an update for an input that is not on
\* the page is dropped.
ClientHandles(m, message) ==
    CASE message.type = "modal_show" -> ModalShown
      [] message.type = "modal_remove" -> ModalClosed
      [] message.type = "inputMessages" ->
            IF m.open THEN ApplyUpdates(m, message.updates) ELSE m

----------------------------------------------------------------------------
(* The data sets and the input values the session is run on *)

\* A file as the dashboard expects it: sorted by state and year, one row
\* per (state, year), some values missing; two states share a value in one
\* year, and two values lie half way between two hundredths.
SortedData ==
    << Row("Alabama", 2019, 19045, 21504, 4100, 4300),
       Row("Alabama", 2020, 20000, NaN, 4200, 4400),
       Row("Texas", 2019, NaN, 21504, 3500, 3600),
       Row("Texas", 2020, 35000, 14125, 3500, NaN) >>

Datasets == {SortedData}

\* The indicators the user picks among (the selectize offers all four).
IndicatorsPicked == {Obesity, Smoking}

\* The checkbox group reports the ticked columns in the order of the boxes.
TableColumnsPicked ==
    { <<>>, <<"State", "Year", "Value">>, <<"State", "Region", "Rank">> }

\* Search texts, as code points: "" and "te".
SearchTextsPicked == { <<>>, <<116, 101>> }

\* The values of the inputs when the session starts (the selected= of the UI).
initial_input(hd) ==
    [state |-> SelectSeq(<<"Alabama">>, LAMBDA s : s \in state_choices(hd)),
     year |-> str(MaxOf(Range(YearColumn(hd)))),
     primary_var |-> Obesity,
     table_columns |-> <<"State", "Year", "Value">>,
     state_search |-> <<>>]

\* The session starts on the first panel of the navset with nothing cached
\* and nothing rendered, and the first flush runs before any message.
first_flush ==
    /\ tab = "Bar Chart"
    /\ inflight = <<>>
    /\ tutorial_step = 0
    /\ modal = ModalClosed
    /\ event = "init"
    /\ \E first \in Flush([n \in CalcNames |-> Invalidated], [o \in OutputNames |-> Pending],
                            input, health_data, tab, {}) :
          /\ calc = first.calc
          /\ output = first.output
          /\ ran = first.ran

Init ==
    /\ health_data \in Datasets
    /\ input = initial_input(health_data)
    /\ first_flush

----------------------------------------------------------------------------
(* The messages of the client *)

\* The user adds a state to the selection.
SelectState ==
    \E s \in state_choices(health_data) \ Range(input.state) :
        /\ Handle([input EXCEPT !.state = Append(@, s)], tab, "state")
        /\ UNCHANGED inflight

\* The user removes a state from the selection.
DeselectState ==
    \E i \in DOMAIN input.state :
        /\ Handle([input EXCEPT !.state =
                       SubSeq(@, 1, i - 1) \o SubSeq(@, i + 1, Len(@))], tab, "state")
        /\ UNCHANGED inflight

\* The user picks another year, or clears the year.
SetYear ==
    \E y \in (year_choices(health_data) \cup {""}) \ {input.year} :
        /\ Handle([input EXCEPT !.year = y], tab, "year")
        /\ UNCHANGED inflight

\* The user picks another indicator, or clears the indicator.
SetIndicator ==
    \E v \in (IndicatorsPicked \cup {""}) \ {input.primary_var} :
        /\ Handle([input EXCEPT !.primary_var = v], tab, "primary_var")
        /\ UNCHANGED inflight

\* The user ticks or unticks columns of the table.
SetTableColumns ==
    \E cols \in TableColumnsPicked \ {input.table_columns} :
        /\ Handle([input EXCEPT !.table_columns = cols], tab, "table_columns")
        /\ UNCHANGED inflight

\* The user types in the search box.
SetSearchText ==
    \E text \in SearchTextsPicked \ {input.state_search} :
        /\ Handle([input EXCEPT !.state_search = text], tab, "state_search")
        /\ UNCHANGED inflight

\* The user opens another panel of the chart navset.
ShowPanel ==
    \E t \in Panels \ {tab} :
        /\ Handle(input, t, "panel")
        /\ UNCHANGED inflight

\* select_all_states: the click on "Select All States". The effect reads
\* the selection and sends update_selectize to the client.
all_states(hd) == unique(StateColumn(hd))

\* (mutant) the button always selects every state.
select_all_always(current_selected, hd) == all_states(hd)

select_all_message(current_selected, hd) ==
    IF Len(current_selected) = Len(all_states(hd))
    THEN <<"Alabama">>
    ELSE all_states(hd)

select_all_states ==
    /\ Len(inflight) < MaxInflight
    /\ inflight' = Append(inflight,
                          select_all_message(IF input.state # <<>> THEN input.state ELSE <<>>,
                                             health_data))
    /\ ran' = {"select_all_states"}
    /\ event' = "select_all_states"
    /\ UNCHANGED <<tutorial_step, modal, health_data, input, tab, calc, output>>

\* The client applies the oldest update_selectize message: the selectize
\* takes the items of the message that are among its choices, and reports
\* them as the new value of input.state.
ClientSelects(message, hd) == SelectSeq(message, LAMBDA s : s \in state_choices(hd))

UpdateSelectize ==
    /\ inflight # <<>>
    /\ Handle([input EXCEPT !.state = ClientSelects(Head(inflight), health_data)],
              tab, "update_selectize")
    /\ inflight' = Tail(inflight)

Next ==
    \/ SelectState
    \/ DeselectState
    \/ SetYear
    \/ SetIndicator
    \/ SetTableColumns
    \/ SetSearchText
    \/ ShowPanel
    \/ select_all_states
    \/ UpdateSelectize

Spec == Init /\ [][Next]_vars

----------------------------------------------------------------------------
(* The two derivations on every small data frame *)

\* The values a row holds for obesity and smoking (thousandths, or NaN).
ValueProfiles == { <<20000, NaN>>, <<35000, 15000>>, <<NaN, 21000>> }

\* The rows the frames are made of: two states in two years with every
\* profile, and a third state that ties with the greatest obesity value.
RowChoices ==
    { Row(s, y, p[1], p[2], 3000, 4000) :
        s \in {"Alabama", "Texas"}, y \in {2019, 2020}, p \in ValueProfiles }
    \cup { Row("Montana", 2020, 35000, 15000, 3000, 4000) }

\* Every sequence of at most n rows.
RECURSIVE FramesUpTo(_)
FramesUpTo(n) ==
    IF n = 0 THEN { <<>> }
    ELSE LET shorter == FramesUpTo(n - 1)
         IN shorter \cup { Append(f, r) : f \in {g \in shorter : Len(g) = n - 1},
                                          r \in RowChoices }

SelectionsRead ==
    { <<>>, <<"Alabama">>, <<"Texas", "Alabama">>, <<"Alabama", "Montana", "Texas">> }

InitDerive ==
    /\ health_data \in FramesUpTo(MaxRows)
    /\ \E states \in SelectionsRead, y \in {"2019", "2020"}, v \in IndicatorsPicked :
          input = [state |-> states, year |-> y, primary_var |-> v,
                   table_columns |-> <<"State", "Year", "Value">>, state_search |-> <<>>]
    /\ first_flush

\* The first flush reads the current slice for the bar chart; the trend
\* slice is read when the user opens the Trend Chart panel.
NextDerive == ShowPanel

SpecDerive == InitDerive /\ [][NextDerive]_vars

----------------------------------------------------------------------------
(* filtered_states on every small list of names and every short search text *)

\* Names of ASCII letters, as the State column of us_health_states.csv
\* holds them: "Ab", "aB", "B", "ba", "Ka"
NamePool == { <<65, 98>>, <<97, 66>>, <<66>>, <<98, 97>>, <<75, 97>> }

\* What the user types is any text: 'A', 'a', 'b', the Kelvin sign and the
\* Greek capital sigma
SearchLetters == {65, 97, 98, 8490, 931}

RECURSIVE SeqsUpTo(_, _)
SeqsUpTo(S, n) ==
    IF n = 0 THEN { <<>> }
    ELSE LET shorter == SeqsUpTo(S, n - 1)
         IN shorter \cup { Append(f, x) : f \in {g \in shorter : Len(g) = n - 1}, x \in S }

InitSearch ==
    /\ \E names \in SeqsUpTo(NamePool, MaxNames) :
          health_data = [i \in DOMAIN names |-> Row(names[i], 2020, NaN, NaN, NaN, NaN)]
    /\ \E text \in SeqsUpTo(SearchLetters, MaxSearchLen) :
          input = [state |-> <<>>, year |-> "2020", primary_var |-> Obesity,
                   table_columns |-> <<"State", "Year", "Value">>, state_search |-> text]
    /\ tab = "Bar Chart"
    /\ calc = [n \in CalcNames |-> Invalidated]
    /\ output = [o \in OutputNames |-> Pending]
    /\ inflight = <<>>
    /\ tutorial_step = 0
    /\ modal = ModalClosed
    /\ ran = {}
    /\ event = "init"

\* The first read of filtered_states.
ReadFilteredStates ==
    /\ event = "init"
    /\ calc' = [calc EXCEPT !["filtered_states"] =
                   Compute("filtered_states", input, health_data)]
    /\ ran' = {"filtered_states"}
    /\ event' = "read"
    /\ UNCHANGED <<tutorial_step, modal, health_data, input, tab, output, inflight>>

NextSearch == ReadFilteredStates

SpecSearch == InitSearch /\ [][NextSearch]_vars

----------------------------------------------------------------------------
(* data_table on every choice and order of the columns *)

\* The boxes of the table_columns checkbox group.
table_columns_choices == <<"State", "Year", "Value", "Region", "Rank">>

\* Every choice of the columns in every order, no column twice.
RECURSIVE ColumnOrders(_)
ColumnOrders(n) ==
    IF n = 0 THEN { <<>> }
    ELSE LET shorter == ColumnOrders(n - 1)
         IN shorter \cup UNION { { Append(f, c) : c \in Range(table_columns_choices) \ Range(f) } :
                                   f \in {g \in shorter : Len(g) = n - 1} }

InitTable ==
    /\ health_data \in Datasets
    /\ \E states \in { <<>>, <<"Alabama">>, <<"Texas", "Alabama">> },
          y \in year_choices(health_data), v \in IndicatorsPicked,
          cols \in ColumnOrders(Len(table_columns_choices)) :
          input = [state |-> states, year |-> y, primary_var |-> v,
                   table_columns |-> cols, state_search |-> <<>>]
    /\ first_flush

\* The table is rendered when the user opens the Data Table panel, on the
\* current slice the first flush has cached.
NextTable == ShowPanel

SpecTable == InitTable /\ [][NextTable]_vars

----------------------------------------------------------------------------
(* The region of every state name, and the Region column of the slice *)

\* The names tried: every listed state, states of no list, a listed name in
\* another case and the empty name.
RegionNamesTried ==
    northeast \cup midwest \cup south
    \cup {"Montana", "California", "District of Columbia", "texas", ""}

InitRegion ==
    /\ \E a, b \in RegionNamesTried, v \in {35000, NaN} :
          /\ health_data = << Row(a, 2020, 20000, 15000, 3000, 4000),
                              Row(b, 2020, v, 15000, 3000, 4000) >>
          /\ input = [state |-> <<a, b>>, year |-> "2020", primary_var |-> Obesity,
                      table_columns |-> <<"State", "Year", "Value">>, state_search |-> <<>>]
    /\ first_flush

\* The first flush reads the current slice for the bar chart, and the
\* other panels show it when the user opens them.
NextRegion == ShowPanel

SpecRegion == InitRegion /\ [][NextRegion]_vars

----------------------------------------------------------------------------
(* The tutorial handlers. They read and write nothing of the dashboard, and
   the dashboard handlers nothing of the tutorial, so the tutorial is run
   from the initial dashboard with the dashboard left as it is. *)

dashboard == <<health_data, input, tab, calc, output>>

\* The click on "Tutorial": show_tutorial.
show_tutorial ==
    /\ Len(inflight) + Len(show_tutorial_messages) <= MaxPending
    /\ tutorial_step' = 0
    /\ inflight' = inflight \o show_tutorial_messages
    /\ ran' = {"show_tutorial"}
    /\ event' = "tutorial_btn"
    /\ UNCHANGED <<dashboard, modal>>

\* The click on "Next" of the modal (a disabled button gives no click).
next_tutorial_step ==
    /\ modal.open
    /\ ~modal.next_step
    /\ Len(inflight) < MaxPending
    /\ LET current_step == tutorial_step
       IN IF current_step < 3
          THEN LET new_step == current_step + 1
               IN /\ tutorial_step' = new_step
                  /\ inflight' = inflight \o step_messages(current_step, new_step)
          ELSE UNCHANGED <<tutorial_step, inflight>>
    /\ ran' = {"next_tutorial_step"}
    /\ event' = "next_step"
    /\ UNCHANGED <<dashboard, modal>>

\* The click on "Previous" of the modal.
prev_tutorial_step ==
    /\ modal.open
    /\ ~modal.prev_step
    /\ Len(inflight) < MaxPending
    /\ LET current_step == tutorial_step
       IN IF current_step > 0
          THEN LET new_step == current_step - 1
               IN /\ tutorial_step' = new_step
                  /\ inflight' = inflight \o step_messages(current_step, new_step)
          ELSE UNCHANGED <<tutorial_step, inflight>>
    /\ ran' = {"prev_tutorial_step"}
    /\ event' = "prev_step"
    /\ UNCHANGED <<dashboard, modal>>

\* The click on "Finish": data-bs-dismiss closes the modal on the page, and
\* close_tutorial sends modal_remove.
close_tutorial ==
    /\ modal.open
    /\ Len(inflight) < MaxPending
    /\ modal' = ModalClosed
    /\ inflight' = Append(inflight, modal_remove)
    /\ ran' = {"close_tutorial"}
    /\ event' = "close_tutorial"
    /\ UNCHANGED <<dashboard, tutorial_step>>

\* easy_close=True: a click beside the modal closes it; no handler runs.
EasyClose ==
    /\ modal.open
    /\ modal' = ModalClosed
    /\ ran' = {}
    /\ event' = "easy_close"
    /\ UNCHANGED <<dashboard, tutorial_step, inflight>>

\* The click on the header of another tab of tutorial_tabs: the page shows
\* that tab. No handler reads input.tutorial_tabs, so the step and the
\* buttons stay.
ClickTutorialTab ==
    /\ modal.open
    /\ \E selected \in Range(step_names) \ {modal.selected} :
          modal' = [modal EXCEPT !.selected = selected]
    /\ ran' = {}
    /\ event' = "tutorial_tabs"
    /\ UNCHANGED <<dashboard, tutorial_step, inflight>>

\* The client handles the oldest message of the server.
ClientReceives ==
    /\ inflight # <<>>
    /\ modal' = ClientHandles(modal, Head(inflight))
    /\ inflight' = Tail(inflight)
    /\ ran' = {}
    /\ event' = "client"
    /\ UNCHANGED <<dashboard, tutorial_step>>

NextTutorial ==
    \/ show_tutorial
    \/ next_tutorial_step
    \/ prev_tutorial_step
    \/ close_tutorial
    \/ EasyClose
    \/ ClickTutorialTab
    \/ ClientReceives

SpecTutorial == Init /\ [][NextTutorial]_vars

----------------------------------------------------------------------------
(* Several sessions over the one data set *)

\* Shiny calls server(input, output, session) once per connected client.
\* The input object belongs to the session; the calcs and the renderers are
\* created by the decorators inside server(), one set per call.
\* health_data is a module global, made once when app.py is imported.
\* In this part input, tab, calc, output, inflight and ran map every session
\* to what the variable holds for a single session elsewhere, and event is
\* the pair of the session that acted and of what it did.

Sessions == 1 .. MaxSessions

\* (mutant) the calcs created once at module level, for every session.
cache_at_module_level(s) == 1

\* The set of calc objects session s reads: the one its own call of
\* server() created.
cache_of(s) == s

\* One state in two years.
SessionData == SubSeq(SortedData, 1, 2)

InitSessions ==
    /\ health_data = SessionData
    /\ input = [s \in Sessions |-> initial_input(health_data)]
    /\ tab = [s \in Sessions |-> "Bar Chart"]
    /\ inflight = [s \in Sessions |-> <<>>]
    /\ tutorial_step = [s \in Sessions |-> 0]
    /\ modal = [s \in Sessions |-> ModalClosed]
    /\ event = <<0, "init">>
    /\ \E first \in Flush([n \in CalcNames |-> Invalidated], [o \in OutputNames |-> Pending],
                            initial_input(health_data), health_data, "Bar Chart", {}) :
          /\ calc = [s \in Sessions |-> first.calc]
          /\ output = [s \in Sessions |-> first.output]
          /\ ran = [s \in Sessions |-> first.ran]

\* The server handles one message of the client of session s.
SessionHandle(s, inp, t, ev) ==
    \E after \in Flush(calc[cache_of(s)], output[s], inp, health_data, t,
                       Changed(input[s], inp)) :
       /\ input' = [input EXCEPT ![s] = inp]
       /\ tab' = [tab EXCEPT ![s] = t]
       /\ calc' = [calc EXCEPT ![cache_of(s)] = after.calc]
       /\ output' = [output EXCEPT ![s] = after.output]
       /\ ran' = [r \in Sessions |-> IF r = s THEN after.ran ELSE {}]
       /\ event' = <<s, ev>>
       /\ UNCHANGED <<tutorial_step, modal, health_data, inflight>>

SessionSelectState ==
    \E s \in Sessions :
        \E st \in state_choices(health_data) \ Range(input[s].state) :
            SessionHandle(s, [input[s] EXCEPT !.state = Append(@, st)], tab[s], "state")

SessionDeselectState ==
    \E s \in Sessions :
        \E i \in DOMAIN input[s].state :
            SessionHandle(s, [input[s] EXCEPT !.state =
                                 SubSeq(@, 1, i - 1) \o SubSeq(@, i + 1, Len(@))],
                          tab[s], "state")

SessionSetYear ==
    \E s \in Sessions :
        \E y \in year_choices(health_data) \ {input[s].year} :
            SessionHandle(s, [input[s] EXCEPT !.year = y], tab[s], "year")

SessionShowPanel ==
    \E s \in Sessions :
        \E t \in {"Bar Chart", "Trend Chart"} \ {tab[s]} :
            SessionHandle(s, input[s], t, "panel")

NextSessions ==
    \/ SessionSelectState
    \/ SessionDeselectState
    \/ SessionSetYear
    \/ SessionShowPanel

SpecSessions == InitSessions /\ [][NextSessions]_vars

----------------------------------------------------------------------------
(* The claims *)

Slices == {"current_data", "trend_data"}

\* The result a run of every calc would give on the inputs as they are now.
Fresh == [n \in CalcNames |-> Compute(n, input, health_data)]

\* C1: a change of the year alone leaves the cached trend slice exactly as
\* it is and does not run trend_data, and it forces current_data to run
\* again: its cached result is either recomputed in that very pass or
\* dropped, so that the next read recomputes it.
C1_YearKeepsTrendDropsCurrent ==
    [][(/\ input'.year # input.year
        /\ input'.state = input.state
        /\ input'.primary_var = input.primary_var)
       => /\ calc'["trend_data"] = calc["trend_data"]
          /\ "trend_data" \notin ran'
          /\ calc["current_data"].valid
                => ("current_data" \in ran' \/ ~calc'["current_data"].valid)
          /\ calc'["current_data"].valid
                => calc'["current_data"] = current_data(input', health_data)]_vars

\* The year was just changed: the trend slice read earlier is still cached
\* and did not run, while current_data ran again.
C1_Witness ==
    /\ event = "year"
    /\ calc["trend_data"].valid
    /\ calc["trend_data"].rows # <<>>
    /\ "trend_data" \notin ran
    /\ "current_data" \in ran

\* C2: a change of the table columns leaves both cached slices exactly as
\* they are and runs neither; nothing but the table renderer runs.
C2_TableColumnsKeepSlices ==
    [][input'.table_columns # input.table_columns
       => /\ \A n \in Slices : calc'[n] = calc[n] /\ n \notin ran'
          /\ ran' \subseteq {"data_table"}]_vars

\* The columns were just changed with both slices cached: only the table ran.
C2_Witness ==
    /\ event = "table_columns"
    /\ ran = {"data_table"}
    /\ calc["current_data"].valid
    /\ calc["current_data"].rows # <<>>
    /\ calc["trend_data"].valid

\* C3: once the pass that follows a mutation is over, every output that is
\* shown has run, every cached slice equals the slice computed afresh from
\* the inputs, every rendering that is kept equals the rendering of the
\* fresh slice, and the bar chart and the table are renderings of one and
\* the same current slice.
C3_NothingStale ==
    /\ \A o \in OutputNames : Shown(o, tab) => output[o].valid
    /\ \A n \in Slices : calc[n].valid => calc[n] = Fresh[n]
    /\ \A o \in OutputNames : output[o].valid => output[o] \in Render(o, Fresh, input)
    /\ (output["bar_plot"].valid /\ output["data_table"].valid)
          => /\ calc["current_data"].valid
             /\ output["bar_plot"] \in bar_plot(calc["current_data"], input)
             /\ output["data_table"] \in data_table(calc["current_data"], input)
             /\ Len(output["bar_plot"].rows) = Len(output["data_table"].rows)

\* After mutations of the states, the year and the indicator, the chart
\* and the table are both kept and show two rows of the current slice.
C3_Witness ==
    /\ input.state = <<"Texas", "Alabama">>
    /\ input.year = "2019"
    /\ input.primary_var = Smoking
    /\ output["bar_plot"].valid
    /\ output["data_table"].valid
    /\ Len(output["data_table"].rows) = 2
    /\ output["trend_plot"].valid

\* C4: with no state selected both slices are an empty frame returned
\* normally, whatever the year and the indicator chosen (the trend slice
\* even with the year cleared), and the outputs render the empty frame.
C4_EmptySelectionEmptySlices ==
    (input.state = <<>> /\ input.primary_var \in IndicatorColumns)
    => /\ Fresh["trend_data"].status = "ok" /\ Fresh["trend_data"].rows = <<>>
       /\ calc["trend_data"].valid
             => calc["trend_data"].status = "ok" /\ calc["trend_data"].rows = <<>>
       /\ output["trend_plot"].valid => output["trend_plot"].kind = "None"
       /\ IsIntLiteral(input.year)
             => /\ Fresh["current_data"].status = "ok"
                /\ Fresh["current_data"].rows = <<>>
                /\ calc["current_data"].valid
                      => /\ calc["current_data"].status = "ok"
                         /\ calc["current_data"].rows = <<>>
                /\ output["bar_plot"].valid => output["bar_plot"].kind = "None"
                /\ output["data_table"].valid
                      => /\ output["data_table"].kind = "frame"
                         /\ output["data_table"].rows = <<>>

\* Both slices have been read with no state selected.
C4_Witness ==
    /\ input.state = <<>>
    /\ \A n \in Slices : calc[n].valid /\ calc[n].status = "ok" /\ calc[n].rows = <<>>
    /\ output["bar_plot"].valid
    /\ output["trend_plot"].valid

\* C5: the current slice holds no missing value, and the rank of a row is
\* one more than the number of rows of the slice with a strictly greater
\* value: it lies between 1 and the number of rows, equal values have equal
\* ranks, and a greater value has a smaller rank.
C5_CompetitionRanking ==
    (calc["current_data"].valid /\ calc["current_data"].status = "ok")
    => LET rows == calc["current_data"].rows
       IN /\ \A i \in DOMAIN rows :
                /\ rows[i].value # NaN
                /\ rows[i].Rank \in 1..Len(rows)
                /\ rows[i].Rank =
                      1 + Cardinality({j \in DOMAIN rows : rows[j].value > rows[i].value})
          /\ \A i, j \in DOMAIN rows :
                /\ rows[i].value = rows[j].value => rows[i].Rank = rows[j].Rank
                /\ rows[i].value > rows[j].value => rows[i].Rank < rows[j].Rank
          /\ Len(rows) =
                Cardinality({i \in DOMAIN health_data :
                         /\ health_data[i].State \in Range(input.state)
                         /\ health_data[i].year = int(input.year)
                         /\ health_data[i].col[input.primary_var] # NaN})

\* The scenario: A 20.0, B 35.0 and C 35.0 in 2020 are ranked 3, 1 and 1.
C5_Witness ==
    /\ calc["current_data"].valid
    /\ input.year = "2020"
    /\ input.primary_var = Obesity
    /\ Len(calc["current_data"].rows) = 3
    /\ {<<r.State, r.value, r.Rank>> : r \in Range(calc["current_data"].rows)}
          = { <<"Alabama", 20000, 3>>, <<"Montana", 35000, 1>>, <<"Texas", 35000, 1>> }

\* C6: a click on the button with a selection that is not the whole set of
\* states asks for all the states, a click with all of them selected asks
\* for the default selection, Alabama alone (not for the selection held
\* before), and the client makes the selection asked for the value of the
\* input.
C6_SelectAllToggles ==
    [][/\ Len(inflight') > Len(inflight)
          => LET asked == inflight'[Len(inflight')]
             IN /\ inflight' = Append(inflight, asked)
                /\ IF Range(input.state) = state_choices(health_data)
                   THEN asked = <<"Alabama">>
                   ELSE /\ Range(asked) = state_choices(health_data)
                        /\ Len(asked) = Cardinality(state_choices(health_data))
       /\ Len(inflight') < Len(inflight)
          => input'.state = Head(inflight)]_vars

\* The second click has been handled and applied: from all the states the
\* selection went back to Alabama alone.
C6_Witness ==
    /\ event = "update_selectize"
    /\ input.state = <<"Alabama">>

\* The positions of the rows of the data frame that a slice of the selected
\* states and indicator draws on: those of year y for the current slice,
\* those of every year for the trend slice.
MatchingCurrent ==
    {i \in DOMAIN health_data :
        /\ health_data[i].State \in Range(input.state)
        /\ health_data[i].year = int(input.year)
        /\ health_data[i].col[input.primary_var] # NaN}

MatchingTrend ==
    {i \in DOMAIN health_data :
        /\ health_data[i].State \in Range(input.state)
        /\ health_data[i].col[input.primary_var] # NaN}

\* C7 as stated: of several rows with one (state, year) pair only the
\* first is taken, so the current slice holds at most one row per state
\* and the trend slice at most one row per state and year.
C7_FirstMatchOnly ==
    /\ calc["current_data"].valid
          => LET rows == calc["current_data"].rows
             IN \A i, j \in DOMAIN rows : rows[i].State = rows[j].State => i = j
    /\ calc["trend_data"].valid
          => LET rows == calc["trend_data"].rows
             IN \A i, j \in DOMAIN rows :
                   (rows[i].State = rows[j].State /\ rows[i].year = rows[j].year) => i = j

\* C7 as amended: every matching row is kept. The current slice holds, for
\* every state, as many rows as the data frame has rows of that state and
\* the selected year with a value, and the trend slice, for every state
\* and year, as many rows as the data frame has with a value: one row per
\* state (per state and year) only where the data frame repeats no pair.
C7_EveryMatchKept ==
    /\ (calc["current_data"].valid /\ calc["current_data"].status = "ok")
          => LET rows == calc["current_data"].rows
             IN \A s \in state_choices(health_data) :
                   Cardinality({k \in DOMAIN rows : rows[k].State = s})
                      = Cardinality({i \in MatchingCurrent : health_data[i].State = s})
    /\ (calc["trend_data"].valid /\ calc["trend_data"].status = "ok")
          => LET rows == calc["trend_data"].rows
             IN \A s \in state_choices(health_data), y \in DOMAIN YearText :
                   Cardinality({k \in DOMAIN rows : rows[k].State = s /\ rows[k].year = y})
                      = Cardinality({i \in MatchingTrend :
                                        health_data[i].State = s /\ health_data[i].year = y})

\* A repeated (state, year) pair: the current slice holds two rows of one
\* state, with different values.
C7_Witness ==
    /\ calc["current_data"].valid
    /\ \E i, j \in DOMAIN calc["current_data"].rows :
          /\ i < j
          /\ calc["current_data"].rows[i].State = calc["current_data"].rows[j].State
          /\ calc["current_data"].rows[i].value # calc["current_data"].rows[j].value

\* The place of a state in the selection.
PlaceIn(selection, s) == CHOOSE k \in DOMAIN selection : selection[k] = s

\* C8 as stated: the rows of the trend slice are grouped by state in the
\* order of the selection, and by ascending year within a state.
C8_GroupedBySelection ==
    calc["trend_data"].valid
    => LET rows == calc["trend_data"].rows
       IN \A i, j \in DOMAIN rows :
             i < j => \/ PlaceIn(input.state, rows[i].State) < PlaceIn(input.state, rows[j].State)
                      \/ /\ rows[i].State = rows[j].State
                         /\ rows[i].year <= rows[j].year

\* C8 as amended: the rows of the trend slice are the rows of the data
\* frame that belong to a selected state and hold a value, in the order of
\* the data frame whatever the order of the selection; the chart draws one
\* line per state, the states in the order in which the slice first names
\* them, and the points of a line in the order of the slice.
C8_SourceOrder ==
    (calc["trend_data"].valid /\ calc["trend_data"].status = "ok")
    => LET rows == calc["trend_data"].rows
           at(k) == CHOOSE i \in MatchingTrend :
                        Cardinality({j \in MatchingTrend : j <= i}) = k
       IN /\ Len(rows) = Cardinality(MatchingTrend)
          /\ \A k \in DOMAIN rows :
                /\ rows[k].State = health_data[at(k)].State
                /\ rows[k].year = health_data[at(k)].year
                /\ rows[k].value = health_data[at(k)].col[input.primary_var]
          /\ output["trend_plot"].valid
                => LET lines == output["trend_plot"].rows
                   IN \A l \in DOMAIN lines :
                         lines[l] = SelectSeq(rows, LAMBDA r : r.State = lines[l][1].State)

\* A trend slice that follows the data frame against the selection: Texas
\* was selected before Alabama and comes after it, and the years of a
\* state go backwards.
C8_Witness ==
    /\ calc["trend_data"].valid
    /\ input.state = <<"Texas", "Alabama">>
    /\ LET rows == calc["trend_data"].rows
       IN /\ Len(rows) = 3
          /\ rows[1].State = "Alabama" /\ rows[1].year = 2020
          /\ rows[2].State = "Texas"
          /\ rows[3].State = "Alabama" /\ rows[3].year = 2019

\* Two code points are the same letter, whatever the case.
SameLetter(a, b) ==
    \/ a = b
    \/ a \in 65..90 /\ b = a + 32
    \/ b \in 65..90 /\ a = b + 32
    \/ {a, b} \subseteq {75, 107, 8490}
    \/ {a, b} \subseteq {931, 962, 963}

ContainsIgnoringCase(name, text) ==
    \E off \in 0..(Len(name) - Len(text)) :
        \A k \in DOMAIN text : SameLetter(name[off + k], text[k])

\* Text a comes before text b: at the first place where they differ a has
\* the lesser code point, or a ends there.
ComesBefore(a, b) ==
    \E k \in 1..(Len(b)) :
        /\ \A m \in 1..(k - 1) : m <= Len(a) /\ a[m] = b[m]
        /\ (k > Len(a) \/ (k <= Len(a) /\ a[k] < b[k]))

\* C9: filtered_states returns each state whose name contains the search
\* text whatever the case once, in ascending order; if no name does (or the
\* text is empty) it returns every state once, in ascending order; so it
\* is empty only if there is no state.
C9_FilteredStates ==
    calc["filtered_states"].valid
    => LET found == calc["filtered_states"].rows
           names == Range(StateColumn(health_data))
           matching == {n \in names : ContainsIgnoringCase(n, input.state_search)}
       IN /\ calc["filtered_states"].status = "ok"
          /\ Range(found) = IF matching = {} \/ input.state_search = <<>>
                            THEN names ELSE matching
          /\ \A i, j \in DOMAIN found : i < j => ComesBefore(found[i], found[j])
          /\ names # {} => found # <<>>

\* The search text "Ab" finds "Ab" and "aB", in that order, and leaves out
\* a state named otherwise.
C9_Witness ==
    /\ calc["filtered_states"].valid
    /\ input.state_search = <<65, 98>>
    /\ calc["filtered_states"].rows = << <<65, 98>>, <<97, 66>> >>
    /\ Cardinality(Range(StateColumn(health_data))) = 3

\* C10 as stated: with the year or the indicator missing no slice is
\* computed; every read ends in an error.
C10_MissingInputRefused ==
    (input.year = "" \/ input.primary_var = "")
    => \A n \in Slices : calc[n].valid => calc[n].status # "ok"

\* C10 as amended: with the indicator missing both reads raise (KeyError),
\* with the year missing the read of the current slice raises (ValueError);
\* the error reaches the outputs that called, and no read raises silently
\* or puts a default in the place of the missing input. The trend slice,
\* which does not read the year, is computed as usual when only the year
\* is missing.
C10_MissingInputRaises ==
    /\ calc["current_data"].valid
          => /\ input.year = "" => calc["current_data"].status = "ValueError"
             /\ (input.year # "" /\ input.primary_var = "")
                   => calc["current_data"].status = "KeyError"
             /\ (input.year # "" /\ input.primary_var # "")
                   => calc["current_data"].status = "ok"
    /\ calc["trend_data"].valid
          => /\ input.primary_var = "" => calc["trend_data"].status = "KeyError"
             /\ input.primary_var # "" => /\ calc["trend_data"].status = "ok"
                                          /\ calc["trend_data"] = Fresh["trend_data"]
    /\ \A o \in DOMAIN calc_of :
          (output[o].valid /\ calc[calc_of[o]].status # "ok")
             => /\ output[o].kind = "error"
                /\ output[o].label = <<calc[calc_of[o]].status>>
    /\ output["selected_year"].label = <<IF input.year = "" THEN "Not selected" ELSE input.year>>

\* The year is cleared: the current slice raised ValueError and the chart
\* shows the error, while the trend slice holds its rows.
C10_Witness ==
    /\ input.year = ""
    /\ calc["current_data"].valid
    /\ calc["current_data"].status = "ValueError"
    /\ output["bar_plot"].valid
    /\ output["bar_plot"].kind = "error"
    /\ calc["trend_data"].valid
    /\ calc["trend_data"].status = "ok"
    /\ calc["trend_data"].rows # <<>>

\* What session r owns: its inputs, the panel it shows, its cached calcs,
\* its outputs and the messages on their way to its client.
SessionState(r) == <<input[r], tab[r], calc[cache_of(r)], output[r], inflight[r]>>

\* C11: whatever the interleaving of the sessions' messages, a step taken
\* for one session leaves the inputs, the cached slices and the outputs of
\* every other session as they were, and no step of any session changes
\* the data set, the one thing the sessions share.
C11_SessionIsolation ==
    [][/\ \A r \in Sessions \ {event'[1]} : SessionState(r)' = SessionState(r)
       /\ health_data' = health_data]_vars

\* Session 2 has just changed its year: both sessions hold a current slice
\* with rows, each for its own year.
C11_Witness ==
    /\ event = <<2, "year">>
    /\ input[1].year # input[2].year
    /\ calc[cache_of(1)]["current_data"].valid
    /\ calc[cache_of(2)]["current_data"].valid
    /\ calc[cache_of(1)]["current_data"].rows # <<>>
    /\ calc[cache_of(2)]["current_data"].rows # <<>>
    /\ calc[cache_of(1)]["current_data"].rows # calc[cache_of(2)]["current_data"].rows

\* C12 as stated: the columns of the table are exactly the columns chosen,
\* in the order chosen.
C12_ExactlyChosenColumns ==
    output["data_table"].valid
       => output["data_table"].columns = input.table_columns

\* What the table shows of slice row r under the heading c.
ShownCell(r, c) ==
    CASE c = "State" -> r.State
      [] c = "Year" -> r.Year
      [] c = "Value" -> r.value
      [] c = "Region" -> r.Region
      [] c = "Rank" -> r.Rank

\* Table row t shows slice row r: every cell is the cell of r, the Value
\* being the hundredth nearest to the value of r.
ShowsRow(t, r, columns) ==
    \A i \in DOMAIN columns :
        LET c == columns[i]
        IN IF c = "Value"
           THEN /\ t[c] % 10 = 0
                /\ t[c] - r.value \in -5 .. 5
           ELSE t[c] = ShownCell(r, c)

\* C12 as amended: with rows in the current slice the table shows the
\* chosen columns in the order chosen, or State, Year, Value when no column
\* is chosen, the field `value` under the heading Value; it has one row for
\* every row of the slice, the values rounded to two decimals. With an empty
\* slice the table has no column and no row. The slice the calc holds is
\* what current_data computed, unrounded.
C12_TableShowsChosenColumns ==
    (output["data_table"].valid /\ calc["current_data"].status = "ok")
       => LET table == output["data_table"]
              slice == calc["current_data"].rows
          IN /\ (slice # <<>> /\ input.table_columns # <<>>)
                   => table.columns = input.table_columns
             /\ (slice # <<>> /\ input.table_columns = <<>>)
                   => table.columns = <<"State", "Year", "Value">>
             /\ slice = <<>> => table.columns = <<>>
             /\ "value" \notin Range(table.columns)
             /\ Len(table.rows) = Len(slice)
             /\ \A i \in DOMAIN table.rows : DOMAIN table.rows[i] = Range(table.columns)
             /\ \E place \in [DOMAIN table.rows -> DOMAIN slice] :
                   /\ \A i, j \in DOMAIN table.rows : place[i] = place[j] => i = j
                   /\ \A i \in DOMAIN table.rows :
                         ShowsRow(table.rows[i], slice[place[i]], table.columns)
             /\ calc["current_data"] = current_data(input, health_data)

\* The columns Rank, Value, State were chosen in that order: the table shows
\* 21.50 under Value where the slice still holds 21.504.
C12_Witness ==
    /\ input.table_columns = <<"Rank", "Value", "State">>
    /\ output["data_table"].valid
    /\ output["data_table"].columns = <<"Rank", "Value", "State">>
    /\ Len(output["data_table"].rows) = 1
    /\ output["data_table"].rows[1]["Value"] = 21500
    /\ calc["current_data"].rows[1].value = 21504

\* C13: every name, a state of the data set or not, has one region among
\* Northeast, Midwest, South and West; a name of none of the three lists
\* has West, Texas has South and Montana West; and every row of the current
\* slice carries the region of its state.
C13_RegionTotal ==
    /\ \A s \in RegionNamesTried :
          /\ get_region(s) \in {"Northeast", "Midwest", "South", "West"}
          /\ s \notin (northeast \cup midwest \cup south) => get_region(s) = "West"
    /\ get_region("Texas") = "South"
    /\ get_region("Montana") = "West"
    /\ calc["current_data"].valid
          => \A i \in DOMAIN calc["current_data"].rows :
                LET r == calc["current_data"].rows[i]
                IN /\ r.Region = get_region(r.State)
                   /\ r.Region \in {"Northeast", "Midwest", "South", "West"}
                   /\ r.State = "Texas" => r.Region = "South"
                   /\ r.State = "Montana" => r.Region = "West"

\* The slice of Texas and Montana was read: its rows carry South and West.
C13_Witness ==
    /\ calc["current_data"].valid
    /\ Len(calc["current_data"].rows) = 2
    /\ calc["current_data"].rows[1].State = "Texas"
    /\ calc["current_data"].rows[1].Region = "South"
    /\ calc["current_data"].rows[2].State = "Montana"
    /\ calc["current_data"].rows[2].Region = "West"

\* The modal once the client has handled every message on its way.
RECURSIVE ModalAfter(_, _)
ModalAfter(m, messages) ==
    IF messages = <<>> THEN m
    ELSE ModalAfter(ClientHandles(m, Head(messages)), Tail(messages))

\* The buttons of an open modal fit the step: Previous is disabled exactly
\* at step 0, Next exactly at step 3.
ButtonsFitStep(m, step) ==
    m.open => /\ m.prev_step <=> (step = 0)
              /\ m.next_step <=> (step = 3)

\* C14 as stated: whatever the clicks on Tutorial, Next, Previous and
\* Finish, tutorial_step stays within 0..3; opening the tutorial sets it to
\* 0; Next at step 3 and Previous at step 0 leave it as it is; and whenever
\* the modal is open, Previous is disabled exactly at step 0 and Next
\* exactly at step 3.
C14_ButtonsFitWheneverOpen ==
    [][/\ tutorial_step \in 0 .. 3
       /\ tutorial_step' \in 0 .. 3
       /\ event' = "tutorial_btn" => tutorial_step' = 0
       /\ event' = "next_step"
             => tutorial_step' = IF tutorial_step = 3 THEN 3 ELSE tutorial_step + 1
       /\ event' = "prev_step"
             => tutorial_step' = IF tutorial_step = 0 THEN 0 ELSE tutorial_step - 1
       /\ ButtonsFitStep(modal, tutorial_step)
       /\ ButtonsFitStep(modal', tutorial_step')]_vars

\* C14 as amended: tutorial_step stays within 0..3; opening the tutorial
\* sets it to 0; Next at step 3 and Previous at step 0 leave it as it is,
\* and otherwise they move it by one; closing the modal, a click on a tab
\* header and the arrival of a message leave it as it is; and the open
\* modal has Previous disabled exactly at step 0 and Next disabled exactly
\* at step 3 once the client has handled every message sent to it, not
\* before: a modal just shown has both buttons enabled, and after a click
\* the buttons are those of the step left, until the update arrives.
C14_TutorialSteps ==
    [][/\ tutorial_step \in 0 .. 3
       /\ tutorial_step' \in 0 .. 3
       /\ event' = "tutorial_btn" => tutorial_step' = 0
       /\ event' = "next_step"
             => tutorial_step' = IF tutorial_step = 3 THEN 3 ELSE tutorial_step + 1
       /\ event' = "prev_step"
             => tutorial_step' = IF tutorial_step = 0 THEN 0 ELSE tutorial_step - 1
       /\ event' \in {"close_tutorial", "easy_close", "tutorial_tabs", "client"}
             => tutorial_step' = tutorial_step
       /\ ButtonsFitStep(ModalAfter(modal, inflight), tutorial_step)
       /\ ButtonsFitStep(ModalAfter(modal', inflight'), tutorial_step')
       /\ inflight' = <<>> => ButtonsFitStep(modal', tutorial_step')]_vars

\* Previous was clicked at step 0, in the modal just shown whose buttons
\* were still enabled (the open modal does not fit the step): the step
\* stayed 0 and the handler sent nothing, the one message on its way being
\* the update of the buttons by show_tutorial, which makes them fit.
C14_Witness ==
    /\ event = "prev_step"
    /\ tutorial_step = 0
    /\ modal.open
    /\ ~modal.prev_step
    /\ inflight = SubSeq(show_tutorial_messages, 2, 2)
    /\ ~ButtonsFitStep(modal, tutorial_step)
    /\ ButtonsFitStep(ModalAfter(modal, inflight), tutorial_step)

====
